---------------------------- MODULE Spec2Model ----------------------------
(***************************************************************************)
(* Model of src/macros.rs: the typed-value macros value_t! and             *)
(* value_t_or_exit! (single value and multiple values) and the help-line   *)
(* macro get_help!.                                                        *)
(*                                                                         *)
(* A string is a sequence of one-character strings, so that format!,       *)
(* parse and string equality are computed character by character.          *)
(*                                                                         *)
(* Spec runs value_t! and then value_t_or_exit! with the same arguments    *)
(* ($m, $v, $t) on one argument table.  SpecHelp applies get_help! to      *)
(* option descriptors.                                                     *)
(***************************************************************************)
EXTENDS Integers, Sequences, FiniteSets, TLC

VARIABLES
    matches,    \* $m: the argument table (value_of, values_of, usage)
    arm,        \* which arm of the macros is used: "value_of" or "values_of"
    name,       \* $v: the argument name
    ty,         \* $t: the target type
    pc,         \* position in the program
    tmp,        \* the Vec of converted values
    err,        \* value_t!: the Option<String> set on the first failure
    it,         \* position of the iterator of `for pv in v`
    res_t,      \* what value_t! evaluated to
    ret_e,      \* what value_t_or_exit! evaluated to, if it returned
    stdout,     \* the characters written to standard output
    exit_code,  \* the status the process exited with, if it did
    calls,      \* per macro, the strings str::parse was called on, in order
    opt,        \* get_help!: the option descriptor $opt
    help_line   \* get_help!: the String it evaluated to

vars == <<matches, arm, name, ty, pc, tmp, err, it, res_t, ret_e, stdout,
          exit_code, calls, opt, help_line>>

coercion_vars == <<matches, arm, name, ty, pc, tmp, err, it, res_t, ret_e,
                   stdout, exit_code, calls>>

-----------------------------------------------------------------------------
(* Bounds *)

\* longest sequence of raw values an argument holds
MaxLen == 3

\* longest list of possible values an option descriptor holds
MaxVals == 3

-----------------------------------------------------------------------------
(* Option and Result *)

None == [tag |-> "None"]

Some(x) == [tag |-> "Some", val |-> x]

Ok(x) == [tag |-> "Ok", val |-> x]

Err(e) == [tag |-> "Err", val |-> e]

\* all sequences over S of length at most n
SeqsUpTo(S, n) == UNION {[1..k -> S] : k \in 0..n}

-----------------------------------------------------------------------------
(* String literals of the source and of the inputs *)

ISNT_A_VALID == <<" ", "i", "s", "n", "'", "t", " ", "a", " ", "v", "a", "l", "i", "d", " ">>

ARGUMENT_Q == <<"A", "r", "g", "u", "m", "e", "n", "t", " ", "\"">>

Q_NOT_FOUND == <<"\"", " ", "n", "o", "t", " ", "f", "o", "u", "n", "d">>

Q_NOT_FOUND_OR_NOT_VALID == <<"\"", " ", "n", "o", "t", " ", "f", "o", "u", "n", "d", " ", "o", "r", " ", "i", "s", " ", "n", "o", "t", " ", "v", "a", "l", "i", "d">>

PLEASE_RERUN == <<"P", "l", "e", "a", "s", "e", " ", "r", "e", "-", "r", "u", "n", " ", "w", "i", "t", "h", " ", "-", "-", "h", "e", "l", "p", " ", "f", "o", "r", " ", "m", "o", "r", "e", " ", "i", "n", "f", "o", "r", "m", "a", "t", "i", "o", "n">>

NL == <<"\n">>

FOUR_SPACES == <<" ", " ", " ", " ">>

VALUES_OPEN == <<" ", "[", "v", "a", "l", "u", "e", "s", ":">>

VALUES_CLOSE == <<"]">>

\* stringify!($t) of the target types used
T_u32 == <<"u", "3", "2">>

T_i8 == <<"i", "8">>

Types == {T_u32, T_i8}

\* argument names
N_length == <<"l", "e", "n", "g", "t", "h">>

N_seq == <<"s", "e", "q">>

Names == {N_length, N_seq}

\* raw values: "20" parses as both types, "300" as u32 only (i8 overflows),
\* "-7" as i8 only (u32 has no sign), "abc" as neither
RawValues == {<<"2", "0">>, <<"3", "0", "0">>, <<"-", "7">>, <<"a", "b", "c">>}

\* the usage string of the table
Usages == {<<"U", "S", "A", "G", "E", ":", " ", "a", "p", "p", " ", "[", "s", "e", "q", "]">>}

HelpTexts == {<<"M", "o", "d", "e">>, <<"S", "e", "t", " ", "l", "e", "n", "g", "t", "h">>, <<>>}

ValueNames == {<<"f", "a", "s", "t">>, <<"s", "l", "o", "w">>, <<"x">>}

-----------------------------------------------------------------------------
(* str::parse::<$t>() for the integer target types *)

Digits == <<"0", "1", "2", "3", "4", "5", "6", "7", "8", "9">>

IsDigit(c) == \E d \in 1..10 : Digits[d] = c

DigitVal(c) == (CHOOSE d \in 1..10 : Digits[d] = c) - 1

\* the target type's signedness and width
IsSigned(t) == t = T_i8

Bits(t) == IF t = T_u32 THEN 32 ELSE 8

\* whether n is a value of the type: MIN..MAX of a signed type, 0..2^Bits - 1
\* of an unsigned one (n < 2^Bits stated on the two halves of the width)
InRange(t, n) ==
    IF IsSigned(t)
    THEN -(2 ^ (Bits(t) - 1)) <= n /\ n <= 2 ^ (Bits(t) - 1) - 1
    ELSE 0 <= n /\ n \div (2 ^ (Bits(t) \div 2)) < 2 ^ (Bits(t) \div 2)

\* the digit loop: acc * 10 +/- digit, failing on a character that is no digit
\* and on a value outside the type's range
RECURSIVE ParseDigits(_, _, _, _)
ParseDigits(t, positive, digits, acc) ==
    IF digits = <<>> THEN Ok(acc)
    ELSE IF ~IsDigit(Head(digits)) THEN Err("InvalidDigit")
    ELSE LET d == DigitVal(Head(digits))
             next == IF positive THEN acc * 10 + d ELSE acc * 10 - d
         IN  IF ~InRange(t, next)
             THEN Err("Overflow")
             ELSE ParseDigits(t, positive, Tail(digits), next)

\* s.parse::<t>(): empty fails; a leading "-" is a sign for a signed type only
parse(t, s) ==
    IF s = <<>> THEN Err("Empty")
    ELSE IF Head(s) = "-" /\ IsSigned(t)
         THEN IF Tail(s) = <<>> THEN Err("Empty")
              ELSE ParseDigits(t, FALSE, Tail(s), 0)
         ELSE ParseDigits(t, TRUE, s, 0)

-----------------------------------------------------------------------------
(* The format strings *)

\* format!("{} isn't a valid {}", v, stringify!($t)) with the raw value and
\* the type swapped
InvalidMsg_swapped(v, t) == t \o ISNT_A_VALID \o v

\* the missing-argument format string pasted into the parse-failure arm
InvalidMsg_pasted(v, t) == ARGUMENT_Q \o v \o Q_NOT_FOUND

\* format!("{} isn't a valid {}", v, stringify!($t))
InvalidMsg(v, t) == v \o ISNT_A_VALID \o t

\* the missing-argument message without the argument
MissingMsg_unnamed(n) == ARGUMENT_Q \o Q_NOT_FOUND

\* format!("Argument \"{}\" not found", $v)
MissingMsg(n) == ARGUMENT_Q \o n \o Q_NOT_FOUND

\* the exit diagnostic without the usage string
ExitInvalidMsg_nousage(v, t, u) ==
    v \o ISNT_A_VALID \o t \o NL \o PLEASE_RERUN \o NL

\* println!("{} isn't a valid {}\n{}\nPlease re-run with --help for more
\* information", v, stringify!($t), $m.usage())
ExitInvalidMsg(v, t, u) ==
    v \o ISNT_A_VALID \o t \o NL \o u \o NL \o PLEASE_RERUN \o NL

\* println!("Argument \"{}\" not found or is not valid\n{}\nPlease re-run
\* with --help for more information", $v, $m.usage())
ExitMissingMsg(n, u) ==
    ARGUMENT_Q \o n \o Q_NOT_FOUND_OR_NOT_VALID \o NL \o u \o NL
        \o PLEASE_RERUN \o NL

-----------------------------------------------------------------------------
(* The argument table *)

\* tables in which at most one argument was supplied
ValueOfTables ==
    {[n \in Names |-> None]} \cup
    {[n \in Names |-> IF n = a THEN Some(s) ELSE None] :
        a \in Names, s \in RawValues}

ValuesOfTables ==
    {[n \in Names |-> None]} \cup
    {[n \in Names |-> IF n = a THEN Some(s) ELSE None] :
        a \in Names, s \in SeqsUpTo(RawValues, MaxLen)}

\* $m.value_of($v): Option<&str>
value_of(m, n) == m.value_of[n]

\* $m.values_of($v): Option<Vec<&str>>
values_of(m, n) == m.values_of[n]

\* $m.usage()
usage(m) == m.usage

-----------------------------------------------------------------------------
(* Option descriptors of get_help! *)

Descriptors ==
    [help : {None} \cup {Some(h) : h \in HelpTexts},
     possible_vals : {None} \cup {Some(pv) : pv \in SeqsUpTo(ValueNames, MaxVals)}]

NoDescriptor == [help |-> None, possible_vals |-> None]

-----------------------------------------------------------------------------
(* Initial state: any table, any macro arguments; nothing has run *)

Init ==
    /\ matches \in [value_of : ValueOfTables, values_of : ValuesOfTables,
                    usage : Usages]
    /\ arm \in {"value_of", "values_of"}
    /\ name \in Names
    /\ ty \in Types
    /\ pc = "value_t"
    /\ tmp = <<>>
    /\ err = None
    /\ it = 1
    /\ res_t = None
    /\ ret_e = None
    /\ stdout = <<>>
    /\ exit_code = None
    /\ calls = [value_t |-> <<>>, value_t_or_exit |-> <<>>]
    /\ opt = NoDescriptor
    /\ help_line = None

-----------------------------------------------------------------------------
(* value_t! *)

\* value_t!($m.value_of($v), $t) parsing the argument name instead of its value
ValueT_value_of_parses_name ==
    /\ pc = "value_t"
    /\ arm = "value_of"
    /\ LET o == value_of(matches, name) IN
        IF o.tag = "Some"
        THEN /\ calls' = [calls EXCEPT !.value_t = Append(@, name)]
             /\ res_t' = IF parse(ty, name).tag = "Ok"
                         THEN Ok(parse(ty, name).val)
                         ELSE Err(InvalidMsg(o.val, ty))
        ELSE /\ res_t' = Err(MissingMsg(name))
             /\ UNCHANGED calls
    /\ pc' = "value_t_or_exit"
    /\ UNCHANGED <<matches, arm, name, ty, tmp, err, it, ret_e, stdout,
                   exit_code, opt, help_line>>

\* value_t!($m.value_of($v), $t)
ValueT_value_of ==
    /\ pc = "value_t"
    /\ arm = "value_of"
    /\ LET o == value_of(matches, name) IN
        IF o.tag = "Some"
        THEN /\ calls' = [calls EXCEPT !.value_t = Append(@, o.val)]
             /\ res_t' = IF parse(ty, o.val).tag = "Ok"
                         THEN Ok(parse(ty, o.val).val)
                         ELSE Err(InvalidMsg(o.val, ty))
        ELSE /\ res_t' = Err(MissingMsg(name))
             /\ UNCHANGED calls
    /\ pc' = "value_t_or_exit"
    /\ UNCHANGED <<matches, arm, name, ty, tmp, err, it, ret_e, stdout,
                   exit_code, opt, help_line>>

\* value_t!($m.values_of($v), $t): the match on $m.values_of($v); Some enters
\* the loop with an empty tmp and no err, None is the missing-argument error
ValueT_values_of ==
    /\ pc = "value_t"
    /\ arm = "values_of"
    /\ IF values_of(matches, name).tag = "Some"
       THEN /\ tmp' = <<>>
            /\ err' = None
            /\ it' = 1
            /\ pc' = "value_t_for"
            /\ UNCHANGED res_t
       ELSE /\ res_t' = Err(MissingMsg(name))
            /\ pc' = "value_t_or_exit"
            /\ UNCHANGED <<tmp, err, it>>
    /\ UNCHANGED <<matches, arm, name, ty, ret_e, stdout, exit_code, calls,
                   opt, help_line>>

\* the loop body without the break: a failure is recorded and the loop goes on
ValueT_for_no_break ==
    /\ pc = "value_t_for"
    /\ LET v == values_of(matches, name).val IN
        IF it > Len(v)
        THEN /\ pc' = "value_t_match_err"
             /\ UNCHANGED <<tmp, err, it, calls>>
        ELSE LET pv == v[it]
                 r == parse(ty, pv)
             IN  /\ calls' = [calls EXCEPT !.value_t = Append(@, pv)]
                 /\ it' = it + 1
                 /\ pc' = pc
                 /\ IF r.tag = "Ok"
                    THEN tmp' = Append(tmp, r.val) /\ UNCHANGED err
                    ELSE err' = Some(InvalidMsg(pv, ty)) /\ UNCHANGED tmp
    /\ UNCHANGED <<matches, arm, name, ty, res_t, ret_e, stdout, exit_code,
                   opt, help_line>>

\* the loop body inserting each converted value at the front of tmp
ValueT_for_push_front ==
    /\ pc = "value_t_for"
    /\ LET v == values_of(matches, name).val IN
        IF it > Len(v)
        THEN /\ pc' = "value_t_match_err"
             /\ UNCHANGED <<tmp, err, it, calls>>
        ELSE LET pv == v[it]
                 r == parse(ty, pv)
             IN  /\ calls' = [calls EXCEPT !.value_t = Append(@, pv)]
                 /\ IF r.tag = "Ok"
                    THEN /\ tmp' = <<r.val>> \o tmp
                         /\ it' = it + 1
                         /\ UNCHANGED <<err, pc>>
                    ELSE /\ err' = Some(InvalidMsg(pv, ty))
                         /\ pc' = "value_t_match_err"
                         /\ UNCHANGED <<tmp, it>>
    /\ UNCHANGED <<matches, arm, name, ty, res_t, ret_e, stdout, exit_code,
                   opt, help_line>>

\* one step of `for pv in v`: the iterator is exhausted, or pv is parsed and
\* pushed, or the first failure sets err and breaks
ValueT_for ==
    /\ pc = "value_t_for"
    /\ LET v == values_of(matches, name).val IN
        IF it > Len(v)
        THEN /\ pc' = "value_t_match_err"
             /\ UNCHANGED <<tmp, err, it, calls>>
        ELSE LET pv == v[it]
                 r == parse(ty, pv)
             IN  /\ calls' = [calls EXCEPT !.value_t = Append(@, pv)]
                 /\ IF r.tag = "Ok"
                    THEN /\ tmp' = Append(tmp, r.val)
                         /\ it' = it + 1
                         /\ UNCHANGED <<err, pc>>
                    ELSE /\ err' = Some(InvalidMsg(pv, ty))
                         /\ pc' = "value_t_match_err"
                         /\ UNCHANGED <<tmp, it>>
    /\ UNCHANGED <<matches, arm, name, ty, res_t, ret_e, stdout, exit_code,
                   opt, help_line>>

\* match err { Some(e) => Err(e), None => Ok(tmp) }
ValueT_match_err ==
    /\ pc = "value_t_match_err"
    /\ res_t' = IF err.tag = "Some" THEN Err(err.val) ELSE Ok(tmp)
    /\ pc' = "value_t_or_exit"
    /\ UNCHANGED <<matches, arm, name, ty, tmp, err, it, ret_e, stdout,
                   exit_code, calls, opt, help_line>>

-----------------------------------------------------------------------------
(* value_t_or_exit! *)

\* value_t_or_exit!($m.value_of($v), $t): the value, or the diagnostic is
\* printed and the process is about to exit
ValueTOrExit_value_of ==
    /\ pc = "value_t_or_exit"
    /\ arm = "value_of"
    /\ LET o == value_of(matches, name) IN
        IF o.tag = "Some"
        THEN /\ calls' = [calls EXCEPT !.value_t_or_exit = Append(@, o.val)]
             /\ IF parse(ty, o.val).tag = "Ok"
                THEN /\ ret_e' = Some(parse(ty, o.val).val)
                     /\ pc' = "returned"
                     /\ UNCHANGED stdout
                ELSE /\ stdout' = stdout \o ExitInvalidMsg(o.val, ty, usage(matches))
                     /\ pc' = "exit"
                     /\ UNCHANGED ret_e
        ELSE /\ stdout' = stdout \o ExitMissingMsg(name, usage(matches))
             /\ pc' = "exit"
             /\ UNCHANGED <<ret_e, calls>>
    /\ UNCHANGED <<matches, arm, name, ty, tmp, err, it, res_t, exit_code,
                   opt, help_line>>

\* value_t_or_exit!($m.values_of($v), $t): the match on $m.values_of($v)
ValueTOrExit_values_of ==
    /\ pc = "value_t_or_exit"
    /\ arm = "values_of"
    /\ IF values_of(matches, name).tag = "Some"
       THEN /\ tmp' = <<>>
            /\ it' = 1
            /\ pc' = "value_t_or_exit_for"
            /\ UNCHANGED stdout
       ELSE /\ stdout' = stdout \o ExitMissingMsg(name, usage(matches))
            /\ pc' = "exit"
            /\ UNCHANGED <<tmp, it>>
    /\ UNCHANGED <<matches, arm, name, ty, err, res_t, ret_e, exit_code, calls,
                   opt, help_line>>

\* the loop body skipping an element that fails to parse
ValueTOrExit_for_skips ==
    /\ pc = "value_t_or_exit_for"
    /\ LET v == values_of(matches, name).val IN
        IF it > Len(v)
        THEN /\ ret_e' = Some(tmp)
             /\ pc' = "returned"
             /\ UNCHANGED <<tmp, it, stdout, calls>>
        ELSE LET pv == v[it]
                 r == parse(ty, pv)
             IN  /\ calls' = [calls EXCEPT !.value_t_or_exit = Append(@, pv)]
                 /\ tmp' = IF r.tag = "Ok" THEN Append(tmp, r.val) ELSE tmp
                 /\ it' = it + 1
                 /\ UNCHANGED <<ret_e, pc, stdout>>
    /\ UNCHANGED <<matches, arm, name, ty, err, res_t, exit_code, opt,
                   help_line>>

\* one step of `for pv in v`: the iterator is exhausted and tmp is the value,
\* or pv is parsed and pushed, or the first failure prints the diagnostic and
\* the process is about to exit
ValueTOrExit_for ==
    /\ pc = "value_t_or_exit_for"
    /\ LET v == values_of(matches, name).val IN
        IF it > Len(v)
        THEN /\ ret_e' = Some(tmp)
             /\ pc' = "returned"
             /\ UNCHANGED <<tmp, it, stdout, calls>>
        ELSE LET pv == v[it]
                 r == parse(ty, pv)
             IN  /\ calls' = [calls EXCEPT !.value_t_or_exit = Append(@, pv)]
                 /\ IF r.tag = "Ok"
                    THEN /\ tmp' = Append(tmp, r.val)
                         /\ it' = it + 1
                         /\ UNCHANGED <<ret_e, pc, stdout>>
                    ELSE /\ stdout' = stdout \o ExitInvalidMsg(pv, ty, usage(matches))
                         /\ pc' = "exit"
                         /\ UNCHANGED <<tmp, it, ret_e>>
    /\ UNCHANGED <<matches, arm, name, ty, err, res_t, exit_code, opt,
                   help_line>>

\* ::std::process::exit(1)
process_exit ==
    /\ pc = "exit"
    /\ exit_code' = Some(1)
    /\ pc' = "exited"
    /\ UNCHANGED <<matches, arm, name, ty, tmp, err, it, res_t, ret_e, stdout,
                   calls, opt, help_line>>

Next ==
    \/ ValueT_value_of
    \/ ValueT_values_of
    \/ ValueT_for
    \/ ValueT_match_err
    \/ ValueTOrExit_value_of
    \/ ValueTOrExit_values_of
    \/ ValueTOrExit_for
    \/ process_exit

Spec == Init /\ [][Next]_vars

-----------------------------------------------------------------------------
(* get_help! *)

\* pv.iter().fold(acc, |acc, name| acc + &format!(" {}", name)[..])
RECURSIVE fold(_, _)
fold(acc, pv) ==
    IF pv = <<>> THEN acc
    ELSE fold(acc \o <<" ">> \o Head(pv), Tail(pv))

\* get_help! giving the empty string when there is no help text
get_help_empty(o) ==
    IF o.help.tag = "Some"
    THEN o.help.val \o
         (IF o.possible_vals.tag = "Some"
          THEN VALUES_OPEN \o fold(<<>>, o.possible_vals.val) \o VALUES_CLOSE
          ELSE <<>>)
    ELSE <<>>

\* get_help! separating the closing bracket from the values by a space
get_help_spaced(o) ==
    IF o.help.tag = "Some"
    THEN o.help.val \o
         (IF o.possible_vals.tag = "Some"
          THEN VALUES_OPEN \o fold(<<>>, o.possible_vals.val) \o <<" ">>
                   \o VALUES_CLOSE
          ELSE <<>>)
    ELSE FOUR_SPACES

\* get_help!($opt)
get_help(o) ==
    IF o.help.tag = "Some"
    THEN o.help.val \o
         (IF o.possible_vals.tag = "Some"
          THEN VALUES_OPEN \o fold(<<>>, o.possible_vals.val) \o VALUES_CLOSE
          ELSE <<>>)
    ELSE FOUR_SPACES

\* the help line of one option descriptor is built
GetHelp ==
    /\ \E o \in Descriptors :
        /\ opt' = o
        /\ help_line' = Some(get_help(o))
    /\ UNCHANGED coercion_vars

\* no macro of the coercion engine runs; no help line has been built
InitHelp ==
    /\ matches = [value_of |-> [n \in Names |-> None],
                  values_of |-> [n \in Names |-> None],
                  usage |-> <<>>]
    /\ arm = "value_of"
    /\ name = N_length
    /\ ty = T_u32
    /\ pc = "get_help"
    /\ tmp = <<>>
    /\ err = None
    /\ it = 1
    /\ res_t = None
    /\ ret_e = None
    /\ stdout = <<>>
    /\ exit_code = None
    /\ calls = [value_t |-> <<>>, value_t_or_exit |-> <<>>]
    /\ opt = NoDescriptor
    /\ help_line = None

NextHelp == GetHelp

SpecHelp == InitHelp /\ [][NextHelp]_vars

-----------------------------------------------------------------------------
(* Vocabulary of the properties *)

IsPrefix(p, s) == Len(p) <= Len(s) /\ SubSeq(s, 1, Len(p)) = p

Contains(sub, s) ==
    \E k \in 0..(Len(s) - Len(sub)) : SubSeq(s, k + 1, k + Len(sub)) = sub

\* what the arm's lookup of $v in $m gives
Looked ==
    IF arm = "value_of" THEN value_of(matches, name)
    ELSE values_of(matches, name)

\* the raw values of a present argument, in order (one for the value_of arm)
Raws == IF arm = "value_of" THEN <<Looked.val>> ELSE Looked.val

Fails(t, s) == parse(t, s).tag = "Err"

\* the index of the first raw value that fails to parse, 0 when all parse
FirstBad ==
    IF \E k \in 1..Len(Raws) : Fails(ty, Raws[k])
    THEN CHOOSE k \in 1..Len(Raws) :
            Fails(ty, Raws[k]) /\ \A j \in 1..(k - 1) : ~Fails(ty, Raws[j])
    ELSE 0

Present == Looked.tag = "Some"

\* value_t! has been evaluated
ValueTDone == res_t.tag # "None"

\* value_t_or_exit! has returned, or printed its diagnostic
OrExitDone == pc \in {"returned", "exit", "exited"}

\* each value preceded by one space, from the right
RECURSIVE SpacePrefixed(_)
SpacePrefixed(pv) ==
    IF pv = <<>> THEN <<>>
    ELSE <<" ">> \o Head(pv) \o SpacePrefixed(Tail(pv))

\* the diagnostic printed for a raw value that is no value of the type
InvalidDiagnostic(raw) ==
    raw \o <<" ", "i", "s", "n", "'", "t", " ", "a", " ", "v", "a", "l", "i", "d", " ">>
        \o ty \o <<"\n">> \o usage(matches) \o <<"\n">> \o PLEASE_RERUN
        \o <<"\n">>

-----------------------------------------------------------------------------
(* Properties *)

\* C1: fail-fast of value_t! with values_of.  When the present sequence has a
\* first element vi that fails to parse, str::parse is only ever called on
\* v1..vi in that order, and once value_t! is evaluated it has been called on
\* exactly v1..vi and the result is the error made of vi and the type name,
\* not a (partial) list of values.
C1_FailFast ==
    (arm = "values_of" /\ Present /\ FirstBad > 0) =>
        /\ IsPrefix(calls.value_t, SubSeq(Raws, 1, FirstBad))
        /\ ValueTDone =>
            /\ calls.value_t = SubSeq(Raws, 1, FirstBad)
            /\ res_t.tag = "Err"
            /\ res_t.val = Raws[FirstBad] \o ISNT_A_VALID \o ty

\* value_t! is evaluated on a sequence whose second element is the first to
\* fail and which has an element after it
C1_Witness ==
    /\ arm = "values_of" /\ Present /\ ValueTDone
    /\ FirstBad = 2 /\ Len(Raws) = 3
    /\ res_t.tag = "Err"

\* C2: order and length of value_t! with values_of.  When every element of the
\* present sequence parses (the empty sequence included), the result is Ok of
\* a sequence of the same length whose k-th value is the parse of the k-th
\* raw value.
C2_OrderPreserved ==
    (arm = "values_of" /\ Present /\ FirstBad = 0 /\ ValueTDone) =>
        /\ res_t.tag = "Ok"
        /\ Len(res_t.val) = Len(Raws)
        /\ \A k \in 1..Len(Raws) : res_t.val[k] = parse(ty, Raws[k]).val
        /\ Raws = <<>> => res_t.val = <<>>

\* value_t! is evaluated on an all-valid sequence of two different values
C2_Witness ==
    /\ arm = "values_of" /\ Present /\ ValueTDone
    /\ FirstBad = 0 /\ Len(Raws) >= 2 /\ Raws[1] # Raws[2]
    /\ res_t.tag = "Ok"

\* C3: a missing argument.  value_t! gives the error `Argument "<name>" not
\* found` without calling str::parse; value_t_or_exit! prints `Argument
\* "<name>" not found or is not valid`, the usage string and the re-run hint,
\* each on a line, calls str::parse on nothing, returns nothing, and exits
\* with status 1 only after it has printed.
C3_Missing ==
    ~Present =>
        /\ calls.value_t = <<>> /\ calls.value_t_or_exit = <<>>
        /\ ValueTDone =>
            /\ res_t.tag = "Err"
            /\ res_t.val = ARGUMENT_Q \o name \o Q_NOT_FOUND
        /\ pc # "returned" /\ ret_e = None
        /\ pc \in {"exit", "exited"} =>
            stdout = ARGUMENT_Q \o name \o Q_NOT_FOUND_OR_NOT_VALID \o NL
                        \o usage(matches) \o NL \o PLEASE_RERUN \o NL
        /\ pc = "exited" => exit_code = Some(1)
        /\ pc # "exited" => exit_code = None

\* the process has exited on an argument the table does not hold
C3_Witness ==
    /\ ~Present /\ ValueTDone /\ pc = "exited"
    /\ exit_code = Some(1)

\* C4: value_t! with value_of on a present raw value s that parses gives Ok of
\* parse(s), having called str::parse once, on s, and printed nothing ("20"
\* gives 20).
C4_SingleSuccess ==
    (arm = "value_of" /\ Present /\ FirstBad = 0 /\ ValueTDone) =>
        /\ res_t.tag = "Ok"
        /\ res_t.val = parse(ty, Looked.val).val
        /\ Looked.val = <<"2", "0">> => res_t.val = 20
        /\ calls.value_t = <<Looked.val>>
        /\ pc = "value_t_or_exit" => stdout = <<>>

\* value_t! has just given 300 for the raw value "300"
C4_Witness ==
    /\ arm = "value_of" /\ Present /\ pc = "value_t_or_exit"
    /\ Looked.val = <<"3", "0", "0">>
    /\ res_t.tag = "Ok"
    /\ res_t.val = 300

\* C5 as stated: the error of value_t! with value_of on a present raw value
\* that fails to parse carries the raw value, the argument name and the type
\* name.
C5_CarriesName ==
    (arm = "value_of" /\ Present /\ FirstBad > 0 /\ ValueTDone) =>
        /\ res_t.tag = "Err"
        /\ Contains(Looked.val, res_t.val)
        /\ Contains(name, res_t.val)
        /\ Contains(ty, res_t.val)

\* C5 amended: the error of value_t! with value_of on a present raw value
\* that fails to parse is the string `<raw value> isn't a valid <type name>`:
\* it carries the raw value and the type name and nothing of the argument
\* name.
C5_InvalidMessage ==
    (arm = "value_of" /\ Present /\ FirstBad > 0 /\ ValueTDone) =>
        /\ res_t.tag = "Err"
        /\ res_t.val = Looked.val \o <<" ", "i", "s", "n", "'", "t", " ", "a", " ", "v", "a", "l", "i", "d", " ">> \o ty
        /\ Contains(Looked.val, res_t.val)
        /\ Contains(ty, res_t.val)

\* value_t! is evaluated for length = "abc" as u32
C5_Witness ==
    /\ arm = "value_of" /\ Present /\ ValueTDone
    /\ name = N_length /\ ty = T_u32 /\ Looked.val = <<"a", "b", "c">>
    /\ res_t.tag = "Err"

\* C6: the error value_t! gives for a missing argument is the invalid-value
\* error of no raw value and type, and the error it gives for an invalid value
\* is the missing-argument error of no argument name.
C6_Distinguishable ==
    (ValueTDone /\ res_t.tag = "Err") =>
        IF Present
        THEN \A n \in Names \cup RawValues : res_t.val # MissingMsg(n)
        ELSE \A s \in Names \cup RawValues : \A t \in Types :
                res_t.val # InvalidMsg(s, t)

\* value_t! with values_of has given the error of a missing argument
C6_Witness ==
    /\ arm = "values_of" /\ ~Present /\ ValueTDone
    /\ res_t.tag = "Err"

\* C7: value_t_or_exit! on a present argument whose raw value, or first
\* unparsable element vi, fails to parse.  It never returns; str::parse is
\* only ever called on v1..vi; nothing is printed until the diagnostic, which
\* is exactly `<vi> isn't a valid <type name>`, the usage string and the
\* re-run hint, each on a line; the process exits with status 1, and only
\* after the diagnostic is printed.
C7_ExitOnInvalid ==
    (Present /\ FirstBad > 0) =>
        /\ pc # "returned" /\ ret_e = None
        /\ IsPrefix(calls.value_t_or_exit, SubSeq(Raws, 1, FirstBad))
        /\ pc \in {"exit", "exited"} =>
            /\ stdout = InvalidDiagnostic(Raws[FirstBad])
            /\ calls.value_t_or_exit = SubSeq(Raws, 1, FirstBad)
        /\ pc \notin {"exit", "exited"} => stdout = <<>>
        /\ pc = "exited" => exit_code = Some(1)
        /\ pc # "exited" => exit_code = None

\* the process has exited on a sequence whose second element is the first to
\* fail and which has an element after it
C7_Witness ==
    /\ arm = "values_of" /\ Present /\ FirstBad = 2 /\ Len(Raws) = 3
    /\ pc = "exited"
    /\ exit_code = Some(1)

\* C10: the two macros agree.  Once value_t_or_exit! has returned or printed,
\* it has returned exactly when value_t! gave Ok, and then the same value; it
\* exits exactly when value_t! gave Err; both called str::parse on the same
\* strings in the same order; and for an invalid value the diagnostic starts
\* with the line value_t! gave as its error.
C10_PoliciesAgree ==
    OrExitDone =>
        /\ (pc = "returned") <=> (res_t.tag = "Ok")
        /\ (pc \in {"exit", "exited"}) <=> (res_t.tag = "Err")
        /\ pc = "returned" => (ret_e.tag = "Some" /\ ret_e.val = res_t.val)
        /\ calls.value_t_or_exit = calls.value_t
        /\ (Present /\ res_t.tag = "Err") => IsPrefix(res_t.val \o NL, stdout)

\* value_t_or_exit! has printed for a sequence whose second element is the
\* first to fail, after value_t! gave an error for it
C10_Witness ==
    /\ arm = "values_of" /\ Present /\ FirstBad = 2 /\ Len(Raws) = 3
    /\ pc = "exit"
    /\ res_t.tag = "Err"

\* C8: with no help text, get_help! gives exactly four spaces, whatever the
\* possible values are (none, an empty list, a list of values).
C8_NoHelpFourSpaces ==
    (help_line.tag = "Some" /\ opt.help.tag = "None") =>
        /\ Len(help_line.val) = 4
        /\ \A k \in 1..4 : help_line.val[k] = " "

\* a help line was built for a descriptor with possible values and no help
C8_Witness ==
    /\ help_line.tag = "Some" /\ opt.help.tag = "None"
    /\ opt.possible_vals.tag = "Some"
    /\ Len(opt.possible_vals.val) = 2

\* C9: with help text h, get_help! gives h alone when there is no list of
\* possible values, and otherwise h, " [values:", each value preceded by one
\* space in the list's order, and "]" ("Mode" with fast, slow gives
\* "Mode [values: fast slow]"; an empty list gives h and " [values:]").
C9_HelpWithValues ==
    (help_line.tag = "Some" /\ opt.help.tag = "Some") =>
        /\ opt.possible_vals.tag = "None" => help_line.val = opt.help.val
        /\ opt.possible_vals.tag = "Some" =>
            /\ help_line.val =
                  opt.help.val \o <<" ", "[", "v", "a", "l", "u", "e", "s", ":">>
                      \o SpacePrefixed(opt.possible_vals.val) \o <<"]">>
            /\ opt.possible_vals.val = <<>> =>
                  help_line.val = opt.help.val \o <<" ", "[", "v", "a", "l", "u", "e", "s", ":", "]">>
        /\ (/\ opt.help.val = <<"M", "o", "d", "e">>
            /\ opt.possible_vals = Some(<< <<"f", "a", "s", "t">>, <<"s", "l", "o", "w">> >>)) =>
              help_line.val = <<"M", "o", "d", "e", " ", "[", "v", "a", "l", "u", "e", "s", ":", " ", "f", "a", "s", "t", " ", "s", "l", "o", "w", "]">>

\* the help line of "Mode" with the possible values fast, slow was built
C9_Witness ==
    /\ help_line.tag = "Some"
    /\ opt.help = Some(<<"M", "o", "d", "e">>)
    /\ opt.possible_vals = Some(<< <<"f", "a", "s", "t">>, <<"s", "l", "o", "w">> >>)

=============================================================================
